---------------------------- MODULE Spec2Model ----------------------------
(***************************************************************************)
(* Model of garfinjm/teaspoon: tablespoon.py (downsample_paired_reads, the  *)
(* directory-level driver) and teaspoon.py (subsample_reads, the per-pair   *)
(* worker).  Strings are sequences of one-character strings, so that the    *)
(* string operations of the code (endswith, startswith, in, replace, split, *)
(* zfill, re.sub) are computed as Python computes them.                     *)
(***************************************************************************)
EXTENDS Integers, Sequences, FiniteSets, TLC

(***************************************************************************)
(* Bounds of the model.                                                     *)
(***************************************************************************)
\* largest number of entries the input directory holds
MaxEntries == 4
\* largest number of input files that vanish between discovery and processing
MaxVanish == 1

(***************************************************************************)
(* Python string operations.                                                *)
(***************************************************************************)
\* str.startswith
StartsWith(s, pre) ==
    /\ Len(pre) <= Len(s)
    /\ SubSeq(s, 1, Len(pre)) = pre

\* str.endswith
EndsWith(s, suf) ==
    /\ Len(suf) <= Len(s)
    /\ SubSeq(s, Len(s) - Len(suf) + 1, Len(s)) = suf

\* the `in` operator on strings
Contains(s, sub) ==
    \E i \in 1..(Len(s) - Len(sub) + 1) : SubSeq(s, i, i + Len(sub) - 1) = sub

\* str.replace(old, new): every non-overlapping occurrence, left to right
RECURSIVE Replace(_, _, _)
Replace(s, old, new) ==
    IF Len(s) < Len(old) THEN s
    ELSE IF SubSeq(s, 1, Len(old)) = old
         THEN new \o Replace(SubSeq(s, Len(old) + 1, Len(s)), old, new)
         ELSE <<Head(s)>> \o Replace(Tail(s), old, new)

\* os.path.join(a, b) for a relative b
Join(a, b) == a \o <<"/">> \o b

\* index of the last "/" of a path, 0 when there is none
LastSlash(p) ==
    LET idx == {i \in 1..Len(p) : p[i] = "/"}
    IN  IF idx = {} THEN 0 ELSE CHOOSE i \in idx : \A j \in idx : j <= i

\* os.path.basename
Basename(p) == SubSeq(p, LastSlash(p) + 1, Len(p))

(***************************************************************************)
(* The literal strings of the code.                                         *)
(***************************************************************************)
FASTQ == <<".", "f", "a", "s", "t", "q">>
FASTQ_GZ == <<".", "f", "a", "s", "t", "q", ".", "g", "z">>
U1DOT == <<"_", "1", ".">>
U2DOT == <<"_", "2", ".">>
UR1U == <<"_", "R", "1", "_">>
UR2U == <<"_", "R", "2", "_">>
NameTypes == {"prepend", "insert", "extend"}

(***************************************************************************)
(* Output naming of subsample_reads (teaspoon.py lines 33-64).              *)
(***************************************************************************)
Digits == <<"0", "1", "2", "3", "4", "5", "6", "7", "8", "9">>

\* str(n) for a natural number n
RECURSIVE Str(_)
Str(n) == IF n < 10 THEN <<Digits[n + 1]>> ELSE Str(n \div 10) \o <<Digits[(n % 10) + 1]>>

\* str.zfill(w) of an unsigned digit string
RECURSIVE Zfill(_, _)
Zfill(s, w) == IF Len(s) >= w THEN s ELSE Zfill(<<"0">> \o s, w)

\* the padding cut to its three leading characters
PaddedCoverage_Truncated(cov) == SubSeq(Zfill(Str(cov), 3), 1, 3)

\* padded_coverage = str(desired_coverage).zfill(3)
PaddedCoverage(cov) == Zfill(Str(cov), 3)

XDS == <<"x", "d", "s">>

\* f"{padded_coverage}xds-{filename}"
PrependName(cov, filename) == PaddedCoverage(cov) \o XDS \o <<"-">> \o filename

\* filename.split('_') without the limit: the second part ends at the next
\* underscore
SplitFirst_NoLimit(filename) ==
    LET idx == {i \in 1..Len(filename) : filename[i] = "_"}
    IN  IF idx = {} THEN <<filename>>
        ELSE LET k == CHOOSE i \in idx : \A j \in idx : i <= j
                 later == {i \in idx : i > k} \cup {Len(filename) + 1}
                 n == CHOOSE i \in later : \A j \in later : i <= j
             IN  <<SubSeq(filename, 1, k - 1), SubSeq(filename, k + 1, n - 1)>>

\* filename.split('_', 1): one part when there is no underscore, else two
SplitFirst(filename) ==
    LET idx == {i \in 1..Len(filename) : filename[i] = "_"}
    IN  IF idx = {} THEN <<filename>>
        ELSE LET k == CHOOSE i \in idx : \A j \in idx : i <= j
             IN  <<SubSeq(filename, 1, k - 1), SubSeq(filename, k + 1, Len(filename))>>

\* split('_', 1)[1] raises IndexError when the filename has no underscore
InsertRaises(filename) == Len(SplitFirst(filename)) < 2

\* f"{split[0]}-{padded_coverage}xds_{split[1]}"
InsertName(cov, filename) ==
    SplitFirst(filename)[1] \o <<"-">> \o PaddedCoverage(cov) \o XDS \o <<"_">>
        \o SplitFirst(filename)[2]

\* length of the match of (.fastq.gz|.fastq) at the head of s, 0 when none;
\* the unescaped dots match any character and the first alternative is tried first
MatchLen(s) ==
    IF /\ Len(s) >= 9
       /\ SubSeq(s, 2, 6) = SubSeq(FASTQ, 2, 6)
       /\ SubSeq(s, 8, 9) = SubSeq(FASTQ_GZ, 8, 9)
    THEN 9
    ELSE IF Len(s) >= 6 /\ SubSeq(s, 2, 6) = SubSeq(FASTQ, 2, 6) THEN 6 ELSE 0

\* re.sub(r"(.fastq.gz|.fastq)", f".{padded_coverage}xds\\1", filename):
\* every non-overlapping match, left to right
RECURSIVE ExtendName(_, _)
ExtendName(cov, filename) ==
    IF filename = <<>> THEN <<>>
    ELSE LET m == MatchLen(filename)
         IN  IF m > 0
             THEN <<".">> \o PaddedCoverage(cov) \o XDS \o SubSeq(filename, 1, m)
                      \o ExtendName(cov, SubSeq(filename, m + 1, Len(filename)))
             ELSE <<Head(filename)>> \o ExtendName(cov, Tail(filename))

\* the if/elif chain of lines 37-64; the else branch defaults to prepend
OutName(name_type, cov, filename) ==
    CASE name_type = "prepend" -> PrependName(cov, filename)
      [] name_type = "insert" -> InsertName(cov, filename)
      [] name_type = "extend" -> ExtendName(cov, filename)
      [] OTHER -> PrependName(cov, filename)

\* os.path.join(output_dir, <output name of the basename of r>)
OutPath(name_type, cov, output_dir, r) ==
    Join(output_dir, OutName(name_type, cov, Basename(r)))

\* the size at or below which a read file counts as effectively empty
EmptySize == 100

(***************************************************************************)
(* The filesystem: a function from the paths that exist to what is there,   *)
(* a directory or a regular file with its size and its content (the path of *)
(* the original it holds, and whether it was subsampled).                   *)
(***************************************************************************)
VARIABLES
    fs,              \* the filesystem
    desired_coverage, name_type, input_dir, exclude, output_dir, threads,
                     \* the arguments of downsample_paired_reads
    pc,              \* the position of downsample_paired_reads
    listed,          \* os.listdir(input_dir) has been called
    read_pairs,      \* the pairs found by the scan
    futures,         \* per submitted pair: the state of its task
    collected,       \* the futures whose result() was taken
    stdout,          \* what downsample_paired_reads printed, in order
    exit_status,     \* {} while the process runs, {n} once it exited with n
    vanished         \* number of input files removed by the environment

vars == <<fs, desired_coverage, name_type, input_dir, exclude, output_dir, threads,
          pc, listed, read_pairs, futures, collected, stdout, exit_status, vanished>>

args == <<desired_coverage, name_type, input_dir, exclude, output_dir, threads>>

Dir == [kind |-> "dir", size |-> 0, src |-> <<>>, sub |-> FALSE]
File(n, path) == [kind |-> "file", size |-> n, src |-> path, sub |-> FALSE]

\* os.path.exists, os.path.isdir, os.path.isfile
Exists(f, p) == p \in DOMAIN f
IsDir(f, p) == p \in DOMAIN f /\ f[p].kind = "dir"
IsFile(f, p) == p \in DOMAIN f /\ f[p].kind = "file"

\* os.listdir(d): the names of the entries directly in d, of any kind
ListDir(f, d) ==
    {SubSeq(p, Len(d) + 2, Len(p)) :
        p \in {q \in DOMAIN f : /\ StartsWith(q, d \o <<"/">>)
                                 /\ Len(q) > Len(d) + 1
                                 /\ LastSlash(q) = Len(d) + 1}}

\* os.makedirs(p) on a path that does not exist
MakeDirs(f, p) == f @@ (p :> Dir)

\* a regular file written at p (created or overwritten)
WriteFile(f, p, rec) == [q \in DOMAIN f \cup {p} |-> IF q = p THEN rec ELSE f[q]]

\* a path removed
Remove(f, p) == [q \in DOMAIN f \ {p} |-> f[q]]

(***************************************************************************)
(* The inputs the model draws from.                                         *)
(***************************************************************************)
N_s1 == <<"s", "_", "R", "1", "_", ".", "f", "a", "s", "t", "q">>
N_s2 == <<"s", "_", "R", "2", "_", ".", "f", "a", "s", "t", "q">>
N_a1 == <<"a", "_", "1", ".", "f", "a", "s", "t", "q", ".", "g", "z">>
N_a2 == <<"a", "_", "2", ".", "f", "a", "s", "t", "q", ".", "g", "z">>
N_d1 == <<"d", "_", "1", ".", "f", "a", "s", "t", "q">>
N_d2 == <<"d", "_", "2", ".", "f", "a", "s", "t", "q">>
N_t1 == <<"t", "_", "1", ".", "t", "x", "t">>
N_t2 == <<"t", "_", "2", ".", "t", "x", "t">>

\* the entries an input directory is filled from: name, kind, size (a name
\* that is listed with two sizes is in a directory with one of them)
Pool ==
    { [name |-> N_s1, kind |-> "file", size |-> 10000],
      [name |-> N_s2, kind |-> "file", size |-> 10000],
      [name |-> N_a1, kind |-> "file", size |-> 50],
      [name |-> N_a1, kind |-> "file", size |-> 10000],
      [name |-> N_a2, kind |-> "file", size |-> 10000],
      [name |-> N_d1, kind |-> "dir", size |-> 0],
      [name |-> N_d2, kind |-> "file", size |-> 100],
      [name |-> N_t1, kind |-> "file", size |-> 101],
      [name |-> N_t2, kind |-> "file", size |-> 101] }

D_in == <<"i", "n">>
D_run == <<"r", "_", "1", ".", "d">>
D_run2 == <<"r", "_", "2", ".", "d">>
D_out == <<"o", "u", "t">>
D_none == <<"n", "x">>
InputDirs == {D_in, D_run, D_none}
Excludes == {{}, {<<"s">>}, {<<"s", "_", "R", "2">>}}
Coverages == {0, 5}
ThreadCounts == {0, 1, 2}
ArgNameTypes == NameTypes \cup {"bogus"}

\* the contents a directory can have: entries of distinct names
Contents ==
    {es \in SUBSET Pool : /\ Cardinality(es) <= MaxEntries
                          /\ \A x, y \in es : x.name = y.name => x = y}

\* the filesystem holding directory d with the entries es
DirWith(d, es) ==
    [p \in {d} \cup {Join(d, e.name) : e \in es} |->
        IF p = d THEN Dir
        ELSE LET e == CHOOSE x \in es : Join(d, x.name) = p
             IN  IF e.kind = "dir" THEN Dir ELSE File(e.size, p)]

(***************************************************************************)
(* The state after the command line is parsed: the arguments and the        *)
(* filesystem the run starts from.                                          *)
(***************************************************************************)
\* the filesystem with an input directory d of entries es, the output path in
\* state ok ("absent", "dir" or "file"), and possibly, next to the input
\* directory D_run, the directory D_run2 holding a read-2 file
InitFs(d, es, ok, sibling) ==
    (IF d = D_none THEN <<>> ELSE DirWith(d, es))
    @@ (IF ok = "dir" THEN (D_out :> Dir)
        ELSE IF ok = "file" THEN (D_out :> File(10, D_out))
        ELSE <<>>)
    @@ (IF sibling THEN DirWith(D_run2, {e \in Pool : e.name = N_s2}) ELSE <<>>)

Init ==
    /\ desired_coverage \in Coverages
    /\ name_type \in ArgNameTypes
    /\ input_dir \in InputDirs
    /\ exclude \in Excludes
    /\ output_dir \in {D_out, input_dir}
    /\ threads \in ThreadCounts
    /\ \E es \in Contents,
          ok \in {"absent", "dir", "file"},
          sibling \in BOOLEAN :
          /\ input_dir = D_none => es = {}
          /\ sibling => input_dir = D_run /\ output_dir = D_out /\ ok = "dir"
          /\ output_dir # D_out => ok = "absent"
          /\ fs = InitFs(input_dir, es, ok, sibling)
    /\ pc = "check_input_dir"
    /\ listed = FALSE
    /\ read_pairs = {}
    /\ futures = <<>>
    /\ collected = {}
    /\ stdout = <<>>
    /\ exit_status = {}
    /\ vanished = 0

(***************************************************************************)
(* downsample_paired_reads (tablespoon.py).                                 *)
(***************************************************************************)
\* print(msg); sys.exit(n), or an uncaught exception (msg its traceback, n = 1)
Abort(msg, n) ==
    /\ pc' = "exited"
    /\ stdout' = Append(stdout, msg)
    /\ exit_status' = {n}

\* lines 24-26
CheckInputDir ==
    /\ pc = "check_input_dir"
    /\ IF ~IsDir(fs, input_dir)
       THEN Abort("not a valid directory", 1)
       ELSE pc' = "make_output_dir" /\ UNCHANGED <<stdout, exit_status>>
    /\ UNCHANGED <<fs, args, listed, read_pairs, futures, collected, vanished>>

\* lines 27-28; os.makedirs raises FileExistsError on a path that exists and
\* is no directory, and nothing catches it
MakeOutputDir ==
    /\ pc = "make_output_dir"
    /\ IF IsDir(fs, output_dir)
       THEN pc' = "check_name_type" /\ UNCHANGED <<fs, stdout, exit_status>>
       ELSE IF Exists(fs, output_dir)
            THEN Abort("Traceback: FileExistsError", 1) /\ UNCHANGED fs
            ELSE /\ fs' = MakeDirs(fs, output_dir)
                 /\ pc' = "check_name_type"
                 /\ UNCHANGED <<stdout, exit_status>>
    /\ UNCHANGED <<args, listed, read_pairs, futures, collected, vanished>>

\* lines 30-32
CheckNameType ==
    /\ pc = "check_name_type"
    /\ IF name_type \notin NameTypes
       THEN Abort("name_type must be one of", 1)
       ELSE pc' = "check_coverage" /\ UNCHANGED <<stdout, exit_status>>
    /\ UNCHANGED <<fs, args, listed, read_pairs, futures, collected, vanished>>

\* lines 33-35 (the arguments are integers: argparse converts them)
CheckCoverage ==
    /\ pc = "check_coverage"
    /\ IF desired_coverage <= 0
       THEN Abort("coverage must be a positive integer", 1)
       ELSE pc' = "check_threads" /\ UNCHANGED <<stdout, exit_status>>
    /\ UNCHANGED <<fs, args, listed, read_pairs, futures, collected, vanished>>

\* lines 36-38
CheckThreads ==
    /\ pc = "check_threads"
    /\ IF threads <= 0
       THEN Abort("threads must be a positive integer", 1)
       ELSE pc' = "scan" /\ UNCHANGED <<stdout, exit_status>>
    /\ UNCHANGED <<fs, args, listed, read_pairs, futures, collected, vanished>>

\* line 43-45: the suffix test and the exclusion test (exclude = {} is None)
IsCandidate(filename, ex) ==
    /\ EndsWith(filename, FASTQ) \/ EndsWith(filename, FASTQ_GZ)
    /\ ex = {} \/ \A e \in ex : ~StartsWith(filename, e)

\* line 47
IsRead1(filename) == Contains(filename, U1DOT) \/ Contains(filename, UR1U)

\* line 49: the two replacements, applied to the joined path
Read2Path(read1_path) == Replace(Replace(read1_path, U1DOT, U2DOT), UR1U, UR2U)

\* lines 41-51: the pairs appended for the entries of the input directory.  The
\* list is a set here: os.listdir gives each name once, in arbitrary order.
ScanPairs(f, d, ex) ==
    {<<Join(d, n), Read2Path(Join(d, n))>> :
        n \in {m \in ListDir(f, d) : /\ IsCandidate(m, ex)
                                     /\ IsRead1(m)
                                     /\ IsFile(f, Read2Path(Join(d, m)))}}

Scan ==
    /\ pc = "scan"
    /\ listed' = TRUE
    /\ read_pairs' = ScanPairs(fs, input_dir, exclude)
    /\ pc' = "check_pairs"
    /\ UNCHANGED <<fs, args, futures, collected, stdout, exit_status, vanished>>

\* lines 53-55 without the abort: an empty list of pairs is dispatched
CheckPairs_NoAbort ==
    /\ pc = "check_pairs"
    /\ pc' = "submit"
    /\ UNCHANGED <<fs, args, listed, read_pairs, futures, collected, stdout,
                   exit_status, vanished>>

\* lines 53-55
CheckPairs ==
    /\ pc = "check_pairs"
    /\ IF read_pairs = {}
       THEN Abort("No paired-end reads found", 1)
       ELSE pc' = "submit" /\ UNCHANGED <<stdout, exit_status>>
    /\ UNCHANGED <<fs, args, listed, read_pairs, futures, collected, vanished>>

\* a task as executor.submit leaves it: queued, no tool run yet, nothing
\* captured from mash
NewTask == [st |-> "queued", err |-> "none", mash |-> 0, rasusa |-> 0,
            copied |-> FALSE, reported |-> FALSE, stderr |-> {}]

\* lines 72-73: one future per pair
Submit ==
    /\ pc = "submit"
    /\ futures' = [p \in read_pairs |-> NewTask]
    /\ pc' = "collect"
    /\ UNCHANGED <<fs, args, listed, read_pairs, collected, stdout, exit_status,
                   vanished>>

(***************************************************************************)
(* The worker pool: process_read_pair (tablespoon.py lines 57-69) running   *)
(* subsample_reads (teaspoon.py lines 10-125) for one pair.                 *)
(***************************************************************************)
\* the tasks a worker thread is in the middle of
Busy == {p \in DOMAIN futures : futures[p].st \in {"mash", "rasusa"}}

\* process_read_pair without its raise: the error is printed and the task returns
ProcessReadPairEnd_Swallowed(t, e) ==
    [t EXCEPT !.st = "returned", !.err = e, !.reported = (e # "none")]

\* process_read_pair whose failure leaves the future unresolved
ProcessReadPairEnd_Lost(t, e) ==
    IF e = "none"
    THEN [t EXCEPT !.st = "returned"]
    ELSE [t EXCEPT !.st = "lost", !.err = e, !.reported = TRUE]

\* process_read_pair that puts a failed pair back in the queue
ProcessReadPairEnd_Retry(t, e) ==
    IF e = "none"
    THEN [t EXCEPT !.st = "returned"]
    ELSE [t EXCEPT !.st = "queued", !.reported = TRUE]

\* lines 61-69: what the future of a task holds once subsample_reads ended
\* with error e ("none": it returned).  The except clause prints and re-raises.
ProcessReadPairEnd(t, e) ==
    IF e = "none"
    THEN [t EXCEPT !.st = "returned"]
    ELSE [t EXCEPT !.st = "raised", !.err = e, !.reported = TRUE]

\* the entry checks without the check of the naming scheme
EntryError_SchemeUnchecked(f, cov, nt, r1, r2) ==
    IF ~IsFile(f, r1) \/ ~IsFile(f, r2) THEN "FileNotFoundError"
    ELSE IF cov <= 0 THEN "ValueError"
    ELSE IF nt = "insert" /\ (InsertRaises(Basename(r1)) \/ InsertRaises(Basename(r2)))
         THEN "IndexError"
    ELSE "none"

\* teaspoon.py lines 22-27 and 45-49: the error subsample_reads raises before
\* it touches the files, "none" when it raises none
EntryError(f, cov, nt, r1, r2) ==
    IF ~IsFile(f, r1) \/ ~IsFile(f, r2) THEN "FileNotFoundError"
    ELSE IF cov <= 0 THEN "ValueError"
    ELSE IF nt \notin NameTypes THEN "ValueError"
    ELSE IF nt = "insert" /\ (InsertRaises(Basename(r1)) \/ InsertRaises(Basename(r2)))
         THEN "IndexError"
    ELSE "none"

\* the size test with the boundary left out
EffectivelyEmpty_Strict(f, r1, r2) == f[r1].size < EmptySize \/ f[r2].size < EmptySize

\* teaspoon.py line 69
EffectivelyEmpty(f, r1, r2) == f[r1].size <= EmptySize \/ f[r2].size <= EmptySize

\* shutil.copy(src, dst)
Copy(f, src, dst) == WriteFile(f, dst, [f[src] EXCEPT !.kind = "file"])

\* teaspoon.py lines 22-75: the checks, the output names and the copy of an
\* effectively empty pair; a pair that is not copied goes on to mash
Start(p) ==
    /\ pc = "collect"
    /\ futures[p].st = "queued"
    /\ Cardinality(Busy) < threads
    /\ LET r1 == p[1]
           r2 == p[2]
           e == EntryError(fs, desired_coverage, name_type, r1, r2)
           r1_out == OutPath(name_type, desired_coverage, output_dir, r1)
           r2_out == OutPath(name_type, desired_coverage, output_dir, r2)
           made == IF ~Exists(fs, output_dir) THEN MakeDirs(fs, output_dir) ELSE fs
       IN  IF e # "none"
           THEN /\ futures' = [futures EXCEPT ![p] = ProcessReadPairEnd(@, e)]
                /\ fs' = IF e = "IndexError" THEN made ELSE fs
           ELSE IF EffectivelyEmpty(fs, r1, r2)
                THEN /\ fs' = Copy(Copy(made, r1, r1_out), r2, r2_out)
                     /\ futures' = [futures EXCEPT
                                      ![p] = ProcessReadPairEnd([@ EXCEPT !.copied = TRUE],
                                                                "none")]
                ELSE /\ fs' = made
                     /\ futures' = [futures EXCEPT ![p].st = "mash"]
    /\ UNCHANGED <<args, pc, listed, read_pairs, collected, stdout, exit_status,
                   vanished>>

\* the lines of mash's stderr that the parser looks for
MashLines == {"Estimated genome size:", "Estimated coverage:"}

\* a parse that asks for the genome size line only
ParseError_SizeOnly(lines) ==
    IF "Estimated genome size:" \in lines THEN "none" ELSE "ValueError"

\* teaspoon.py lines 96-106: the parse of the lines mash printed
ParseError(lines) == IF MashLines \subseteq lines THEN "none" ELSE "ValueError"

\* teaspoon.py lines 77-106: open both files, run mash once, parse its stderr
Mash(p) ==
    /\ pc = "collect"
    /\ futures[p].st = "mash"
    /\ IF ~IsFile(fs, p[1]) \/ ~IsFile(fs, p[2])
       THEN futures' = [futures EXCEPT ![p] = ProcessReadPairEnd(@, "FileNotFoundError")]
       ELSE \E lines \in SUBSET MashLines :
               LET t == [futures[p] EXCEPT !.mash = @ + 1, !.stderr = lines]
               IN  IF ParseError(lines) = "none"
                   THEN futures' = [futures EXCEPT ![p] = [t EXCEPT !.st = "rasusa"]]
                   ELSE futures' = [futures EXCEPT
                                      ![p] = ProcessReadPairEnd(t, ParseError(lines))]
    /\ UNCHANGED <<fs, args, pc, listed, read_pairs, collected, stdout, exit_status,
                   vanished>>

\* the files rasusa writes for the pair: subsampled reads of r1 and of r2
Subsampled(f, r) == [f[r] EXCEPT !.sub = TRUE]

\* teaspoon.py lines 108-125: run rasusa once; check=True raises
\* CalledProcessError on a non-zero exit.  rasusa cannot exit 0 on a missing input.
Rasusa(p) ==
    /\ pc = "collect"
    /\ futures[p].st = "rasusa"
    /\ \E rc \in {0, 1} :
          LET t == [futures[p] EXCEPT !.rasusa = @ + 1]
              r1_out == OutPath(name_type, desired_coverage, output_dir, p[1])
              r2_out == OutPath(name_type, desired_coverage, output_dir, p[2])
          IN  /\ rc = 0 => IsFile(fs, p[1]) /\ IsFile(fs, p[2])
              /\ IF rc = 0
                 THEN /\ fs' = WriteFile(WriteFile(fs, r1_out, Subsampled(fs, p[1])),
                                         r2_out, Subsampled(fs, p[2]))
                      /\ futures' = [futures EXCEPT ![p] = ProcessReadPairEnd(t, "none")]
                 ELSE /\ fs' = fs
                      /\ futures' = [futures EXCEPT
                                       ![p] = ProcessReadPairEnd(t, "CalledProcessError")]
    /\ UNCHANGED <<args, pc, listed, read_pairs, collected, stdout, exit_status,
                   vanished>>

\* the environment removes an input file of a pair after the scan found it
Vanish(p) ==
    /\ pc \in {"check_pairs", "submit", "collect"}
    /\ vanished < MaxVanish
    /\ \E r \in {p[1], p[2]} :
          /\ IsFile(fs, r)
          /\ fs' = Remove(fs, r)
    /\ vanished' = vanished + 1
    /\ UNCHANGED <<args, pc, listed, read_pairs, futures, collected, stdout,
                   exit_status>>

\* lines 76-80: future.result() re-raises the exception the task raised, and
\* the except clause of the loop prints it
ResultRaises(t) == t.st = "raised"

Collect(p) ==
    /\ pc = "collect"
    /\ p \notin collected
    /\ futures[p].st \in {"returned", "raised"}
    /\ collected' = collected \cup {p}
    /\ stdout' = IF ResultRaises(futures[p])
                 THEN Append(stdout, "A thread raised an exception")
                 ELSE stdout
    /\ UNCHANGED <<fs, args, pc, listed, read_pairs, futures, exit_status, vanished>>

\* lines 82-84: the with block is left once every future completed; the
\* function prints its last line and returns, and the script ends with status 0
Report ==
    /\ pc = "collect"
    /\ collected = DOMAIN futures
    /\ pc' = "exited"
    /\ stdout' = Append(stdout, "Successfully downsampled reads")
    /\ exit_status' = {0}
    /\ UNCHANGED <<fs, args, listed, read_pairs, futures, collected, vanished>>

Next ==
    \/ CheckInputDir
    \/ MakeOutputDir
    \/ CheckNameType
    \/ CheckCoverage
    \/ CheckThreads
    \/ Scan
    \/ CheckPairs
    \/ Submit
    \/ \E p \in DOMAIN futures : Start(p)
    \/ \E p \in DOMAIN futures : Mash(p)
    \/ \E p \in DOMAIN futures : Rasusa(p)
    \/ \E p \in read_pairs : Vanish(p)
    \/ \E p \in DOMAIN futures : Collect(p)
    \/ Report

Spec == Init /\ [][Next]_vars

\* a step of the program: of the main thread or of a worker thread
Program ==
    \/ CheckInputDir \/ MakeOutputDir \/ CheckNameType \/ CheckCoverage
    \/ CheckThreads \/ Scan \/ CheckPairs \/ Submit \/ Report
    \/ \E p \in DOMAIN futures : Start(p) \/ Mash(p) \/ Rasusa(p) \/ Collect(p)

\* The scheduling of the code: while some thread of the program can take a
\* step, one is taken (threads keep running, mash and rasusa return).  The
\* environment owes nothing.
Fairness == WF_vars(Program)

\* the runs that dispatch pairs under the default naming and no exclusion:
\* valid arguments, an existing output directory, any directory contents
FairInit ==
    /\ Init
    /\ name_type = "prepend"
    /\ exclude = {}
    /\ desired_coverage > 0
    /\ threads > 0
    /\ input_dir = D_in
    /\ IsDir(fs, output_dir)

FairSpec == FairInit /\ [][Next]_vars /\ Fairness

(***************************************************************************)
(* Properties.                                                              *)
(***************************************************************************)
\* the tasks that ended with an exception, and those that returned
Failed == {p \in DOMAIN futures : futures[p].st = "raised"}
Succeeded == {p \in DOMAIN futures : futures[p].st = "returned"}
Printed(msg) == \E i \in 1..Len(stdout) : stdout[i] = msg
TimesPrinted(msg) == Cardinality({i \in 1..Len(stdout) : stdout[i] = msg})
Dispatched == DOMAIN futures # {}

\* C1: a run that got past validation and discovery exits with status 0 if and
\* only if no pair failed, and with a non-zero status if at least one failed.
C1_ExitStatusTellsFailure ==
    (pc = "exited" /\ Dispatched) =>
        /\ exit_status = {0} <=> Failed = {}
        /\ Failed # {} => 0 \notin exit_status

\* C2: fault isolation.  Once the pairs are dispatched, whatever subset of them
\* fails, every discovered pair was submitted and its processing ends
\* (returned or raised), every future is collected, and the run terminates.
C2_FaultIsolation ==
    (pc = "collect") ~>
        (/\ pc = "exited"
         /\ DOMAIN futures = read_pairs
         /\ \A p \in read_pairs : futures[p].st \in {"returned", "raised"}
         /\ collected = read_pairs)

\* C2 witness: a run with two pairs has ended, one pair failed and the other
\* was processed to completion by the tools.
C2_Witness ==
    /\ pc = "exited"
    /\ \E p, q \in read_pairs :
          /\ futures[p].st = "raised"
          /\ futures[q].st = "returned" /\ futures[q].rasusa = 1

\* C3: at the end of a run that dispatched pairs, a run with at least one
\* failed pair is not reported as a success (its last line states the counts,
\* not "Successfully downsampled reads").
C3_FailureNotReportedAsSuccess ==
    (pc = "exited" /\ Dispatched /\ Failed # {}) =>
        ~Printed("Successfully downsampled reads")

ConfigInvalid ==
    \/ ~IsDir(fs, input_dir)
    \/ name_type \notin NameTypes
    \/ desired_coverage <= 0
    \/ threads <= 0

\* C5: in a run that aborts on a configuration error no partial work is done:
\* no step changes the filesystem (the output directory is not created), the
\* input directory is not listed and no pair is dispatched.
C5_AbortLeavesNoPartialWork ==
    [][ConfigInvalid => (fs' = fs /\ ~listed' /\ DOMAIN futures' = {})]_vars

\* the diagnostic of the first check that fails, in the order input
\* directory, naming scheme, coverage, worker count
FirstFailedCheck ==
    IF ~IsDir(fs, input_dir) THEN "not a valid directory"
    ELSE IF name_type \notin NameTypes THEN "name_type must be one of"
    ELSE IF desired_coverage <= 0 THEN "coverage must be a positive integer"
    ELSE "threads must be a positive integer"

\* C6: with an invalid configuration the input directory is never listed, and
\* the run ends with exit status 1 and the diagnostic of the first check that
\* fails in the order input directory, naming scheme, coverage, worker count.
C6_FirstFailedCheckAborts ==
    ConfigInvalid =>
        /\ ~listed
        /\ pc \in {"check_input_dir", "make_output_dir", "check_name_type",
                   "check_coverage", "check_threads", "exited"}
        /\ pc = "exited" => exit_status = {1} /\ stdout = <<FirstFailedCheck>>

\* C7: when the scan yields no pair, the run aborts with the diagnostic and
\* exit status 1; no pair is dispatched, no tool runs and no success is printed.
C7_NoPairsAborts ==
    (listed /\ read_pairs = {}) =>
        /\ pc \in {"check_pairs", "exited"}
        /\ DOMAIN futures = {}
        /\ ~Printed("Successfully downsampled reads")
        /\ pc = "exited" =>
              /\ exit_status = {1}
              /\ stdout = <<"No paired-end reads found">>

\* C7 witness: the run aborted for want of pairs although the directory holds
\* a complete pair, every read-1 file being removed by the exclusion prefix.
C7_Witness ==
    /\ pc = "exited"
    /\ listed
    /\ read_pairs = {}
    /\ exclude # {}
    /\ \E n \in ListDir(fs, input_dir) :
          /\ IsRead1(n)
          /\ IsCandidate(n, {})
          /\ ~IsCandidate(n, exclude)
          /\ IsFile(fs, Read2Path(Join(input_dir, n)))

\* the read-2 name of a read-1 filename: the replacements on the filename only
Read2Name(filename) == Replace(Replace(filename, U1DOT, U2DOT), UR1U, UR2U)

\* the pairs of the input directory by filename: a candidate read-1 entry and
\* the file of the same directory named by Read2Name, when it exists
PairsByFilename ==
    {<<Join(input_dir, n), Join(input_dir, Read2Name(n))>> :
        n \in {m \in ListDir(fs, input_dir) :
                  /\ IsCandidate(m, exclude)
                  /\ IsRead1(m)
                  /\ IsFile(fs, Join(input_dir, Read2Name(m)))}}

\* the state right after the scan, before anything changed the directory
JustScanned == pc = "check_pairs" /\ vanished = 0

\* C8: the discovered pairs are exactly the pairs by filename: read-2 is the
\* file of the input directory whose name is read-1's name with `_1.` replaced
\* by `_2.` and `_R1_` by `_R2_`, the directory part of the path untouched, and
\* a pair is returned exactly when that file exists.
C8_PairsByFilename == JustScanned => read_pairs = PairsByFilename

\* C9: every file of a discovered pair, read-1 or read-2, is a candidate: its
\* name ends in .fastq or .fastq.gz and does not start with the exclusion prefix.
C9_PairFilesAreCandidates ==
    \A p \in read_pairs :
        /\ IsCandidate(Basename(p[1]), exclude)
        /\ IsCandidate(Basename(p[2]), exclude)

\* C10: right after the scan, every discovered pair consists of two distinct
\* paths that both name existing regular files.
C10_PairsAreDistinctRegularFiles ==
    JustScanned =>
        \A p \in read_pairs :
            /\ p[1] # p[2]
            /\ IsFile(fs, p[1])
            /\ IsFile(fs, p[2])


(***************************************************************************)
(* Runs over directories whose names clash: a read-1 name that carries both *)
(* read-1 marks, and the outputs of an earlier run left beside its inputs.  *)
(***************************************************************************)
N_x11 == <<"x", "_", "R", "1", "_", "_", "1", ".", "f", "a", "s", "t", "q">>
N_x21 == <<"x", "_", "R", "2", "_", "_", "1", ".", "f", "a", "s", "t", "q">>
N_x22 == <<"x", "_", "R", "2", "_", "_", "2", ".", "f", "a", "s", "t", "q">>
N_p1 == <<"0", "0", "5", "x", "d", "s", "-", "s", "_", "R", "1", "_", ".", "f", "a", "s", "t", "q">>
N_p2 == <<"0", "0", "5", "x", "d", "s", "-", "s", "_", "R", "2", "_", ".", "f", "a", "s", "t", "q">>

ClashPool ==
    { [name |-> n, kind |-> "file", size |-> 10000] :
        n \in {N_x11, N_x21, N_x22, N_s1, N_s2, N_p1, N_p2} }

\* valid arguments, the output directory the input directory or D_out, and
\* any directory contents drawn from ClashPool
ClashInit ==
    /\ desired_coverage = 5
    /\ name_type \in NameTypes
    /\ input_dir = D_in
    /\ exclude = {}
    /\ output_dir \in {D_out, input_dir}
    /\ threads \in {1, 2}
    /\ \E es \in {x \in SUBSET ClashPool : Cardinality(x) <= MaxEntries} :
          fs = DirWith(D_in, es)
    /\ pc = "check_input_dir"
    /\ listed = FALSE
    /\ read_pairs = {}
    /\ futures = <<>>
    /\ collected = {}
    /\ stdout = <<>>
    /\ exit_status = {}
    /\ vanished = 0

ClashSpec == ClashInit /\ [][Next]_vars

\* the two paths subsample_reads writes for a pair
OutPaths(p) ==
    {OutPath(name_type, desired_coverage, output_dir, p[1]),
     OutPath(name_type, desired_coverage, output_dir, p[2])}

\* C11: within one run no file is a member of two pairs and the output paths
\* of two distinct pairs are distinct, so no two workers write the same path.
C11_OutputPathsPairwiseDistinct ==
    \A p, q \in read_pairs :
        p # q => /\ {p[1], p[2]} \cap {q[1], q[2]} = {}
                 /\ OutPaths(p) \cap OutPaths(q) = {}


(***************************************************************************)
(* teaspoon.py run as a script (lines 128-164): subsample_reads called once *)
(* on the two read files of the command line; an exception it raises is     *)
(* caught by nothing and ends the process with a traceback and status 1.    *)
(* The pair of the command line is the one element of read_pairs and the    *)
(* state of the call is its entry of futures.                               *)
(***************************************************************************)
\* largest number of tokens a read filename of the command line is made of
MaxTokens == 2

Tokens == {<<"a">>, <<"_">>, FASTQ, <<"f", "a", "s", "t", "q">>, <<".", "g", "z">>}

\* the strings made of at most k tokens
RECURSIVE TokenStrings(_)
TokenStrings(k) ==
    IF k = 0 THEN {<<>>}
    ELSE TokenStrings(k - 1) \cup {n \o t : n \in TokenStrings(k - 1), t \in Tokens}

TeaNames == TokenStrings(MaxTokens) \ {<<>>}
TeaCoverages == {5, 1000}

\* the filesystem of a call: the two reads in D_in, r1 of n bytes, and the
\* output path D_out a directory or absent
TeaFs(r1, r2, n, ok) ==
    [p \in {D_in, r1, r2} |->
        IF p = D_in THEN Dir ELSE IF p = r1 THEN File(n, p) ELSE File(10000, p)]
    @@ (IF ok = "dir" THEN (D_out :> Dir) ELSE <<>>)

TeaInit ==
    /\ desired_coverage \in TeaCoverages
    /\ name_type \in ArgNameTypes
    /\ input_dir = D_in
    /\ exclude = {}
    /\ output_dir = D_out
    /\ threads = 1
    /\ \E n1 \in TeaNames, n2 \in TeaNames, fresh \in BOOLEAN :
          /\ read_pairs = {<<Join(D_in, n1), Join(D_in, n2)>>}
          /\ fs = IF fresh
                  THEN TeaFs(Join(D_in, n1), Join(D_in, n2), EmptySize, "absent")
                  ELSE TeaFs(Join(D_in, n1), Join(D_in, n2), 10000, "dir")
    /\ futures = [p \in read_pairs |-> NewTask]
    /\ pc = "subsample_reads"
    /\ listed = FALSE
    /\ collected = {}
    /\ stdout = <<>>
    /\ exit_status = {}
    /\ vanished = 0

\* the traceback of an uncaught exception
Traceback(e) ==
    CASE e = "FileNotFoundError" -> "Traceback: FileNotFoundError"
      [] e = "ValueError" -> "Traceback: ValueError"
      [] e = "IndexError" -> "Traceback: IndexError"
      [] OTHER -> "Traceback: CalledProcessError"

\* subsample_reads raised e: the script dies with the traceback and status 1
TeaRaise(p, t, e) ==
    /\ futures' = [futures EXCEPT ![p] = [t EXCEPT !.st = "raised", !.err = e]]
    /\ Abort(Traceback(e), 1)

\* subsample_reads returned: the script ends with status 0
TeaReturn(p, t) ==
    /\ futures' = [futures EXCEPT ![p] = [t EXCEPT !.st = "returned"]]
    /\ pc' = "exited"
    /\ exit_status' = {0}
    /\ UNCHANGED stdout

\* teaspoon.py lines 22-75
TeaStart(p) ==
    /\ pc = "subsample_reads"
    /\ futures[p].st = "queued"
    /\ LET e == EntryError(fs, desired_coverage, name_type, p[1], p[2])
           r1_out == OutPath(name_type, desired_coverage, output_dir, p[1])
           r2_out == OutPath(name_type, desired_coverage, output_dir, p[2])
           made == IF ~Exists(fs, output_dir) THEN MakeDirs(fs, output_dir) ELSE fs
       IN  IF e # "none"
           THEN /\ TeaRaise(p, futures[p], e)
                /\ fs' = IF e = "IndexError" THEN made ELSE fs
           ELSE IF EffectivelyEmpty(fs, p[1], p[2])
                THEN /\ fs' = Copy(Copy(made, p[1], r1_out), p[2], r2_out)
                     /\ TeaReturn(p, [futures[p] EXCEPT !.copied = TRUE])
                ELSE /\ fs' = made
                     /\ futures' = [futures EXCEPT ![p].st = "mash"]
                     /\ UNCHANGED <<pc, stdout, exit_status>>
    /\ UNCHANGED <<args, listed, read_pairs, collected, vanished>>

\* teaspoon.py lines 77-106
TeaMash(p) ==
    /\ pc = "subsample_reads"
    /\ futures[p].st = "mash"
    /\ \E lines \in SUBSET MashLines :
          LET t == [futures[p] EXCEPT !.mash = @ + 1, !.stderr = lines]
          IN  IF ParseError(lines) = "none"
              THEN /\ futures' = [futures EXCEPT ![p] = [t EXCEPT !.st = "rasusa"]]
                   /\ UNCHANGED <<pc, stdout, exit_status>>
              ELSE TeaRaise(p, t, ParseError(lines))
    /\ UNCHANGED <<fs, args, listed, read_pairs, collected, vanished>>

\* teaspoon.py lines 108-125
TeaRasusa(p) ==
    /\ pc = "subsample_reads"
    /\ futures[p].st = "rasusa"
    /\ \E rc \in {0, 1} :
          LET t == [futures[p] EXCEPT !.rasusa = @ + 1]
              r1_out == OutPath(name_type, desired_coverage, output_dir, p[1])
              r2_out == OutPath(name_type, desired_coverage, output_dir, p[2])
          IN  IF rc = 0
              THEN /\ fs' = WriteFile(WriteFile(fs, r1_out, Subsampled(fs, p[1])),
                                      r2_out, Subsampled(fs, p[2]))
                   /\ TeaReturn(p, t)
              ELSE /\ fs' = fs
                   /\ TeaRaise(p, t, "CalledProcessError")
    /\ UNCHANGED <<args, listed, read_pairs, collected, vanished>>

TeaNext ==
    \/ \E p \in read_pairs : TeaStart(p)
    \/ \E p \in read_pairs : TeaMash(p)
    \/ \E p \in read_pairs : TeaRasusa(p)

TeaSpec == TeaInit /\ [][TeaNext]_vars

\* both entry points: a run of tablespoon.py or a run of teaspoon.py
BothInit == Init \/ TeaInit
BothNext == Next \/ TeaNext
BothSpec == BothInit /\ [][BothNext]_vars


\* the files, other than r itself, that hold the reads of r: what a call wrote
\* for r
Written(r) == {q \in DOMAIN fs : IsFile(fs, q) /\ q # r /\ fs[q].src = r}

\* C12: for a fixed scheme and coverage the output filename is an injective
\* function of the input filename: a call on two distinct filenames that
\* returned has written two distinct files, one for each read.
C12_NamingInjective ==
    \A p \in read_pairs :
        (futures[p].st = "returned" /\ p[1] # p[2]) =>
            \E q1 \in Written(p[1]), q2 \in Written(p[2]) :
                /\ q1 # q2
                /\ Basename(q1) # Basename(q2)

\* C12 witness: a call with the insert scheme on two distinct names returned.
C12_Witness ==
    \E p \in read_pairs :
        /\ futures[p].st = "returned"
        /\ name_type = "insert"
        /\ p[1] # p[2]
        /\ Written(p[1]) # {} /\ Written(p[2]) # {}

\* the number a digit string denotes
RECURSIVE ToInt(_)
ToInt(s) ==
    IF s = <<>> THEN 0
    ELSE ToInt(SubSeq(s, 1, Len(s) - 1)) * 10
            + (CHOOSE d \in 0..9 : Digits[d + 1] = s[Len(s)])

IsDigits(s) == \A i \in 1..Len(s) : \E d \in 1..10 : Digits[d] = s[i]

\* out is digits, "xds-" and filename, the digits denoting cov, at least three
\* of them and no more than three unless cov needs them
IsPrependOf(out, cov, filename) ==
    LET k == Len(out) - Len(filename) - 4
    IN  /\ k >= 3
        /\ IsDigits(SubSeq(out, 1, k))
        /\ ToInt(SubSeq(out, 1, k)) = cov
        /\ k > 3 => out[1] # "0"
        /\ SubSeq(out, k + 1, k + 4) = <<"x", "d", "s", "-">>
        /\ SubSeq(out, k + 5, Len(out)) = filename

\* C13: the prepend output name is the coverage zero-padded to at least three
\* digits and never truncated, then "xds-", then the original filename, so
\* stripping that prefix gives the original filename back.
C13_PrependRoundTrip ==
    \A p \in read_pairs :
        (futures[p].st = "returned" /\ name_type = "prepend") =>
            \A r \in {p[1], p[2]} :
                \E q \in Written(r) :
                    IsPrependOf(Basename(q), desired_coverage, Basename(r))

\* C13 witness: a prepend call with a four-digit coverage returned.
C13_Witness ==
    \E p \in read_pairs :
        /\ futures[p].st = "returned"
        /\ name_type = "prepend"
        /\ desired_coverage >= 1000
        /\ Written(p[1]) # {}

\* filename with .{padded}xds put before the first occurrence of the literal
\* text .fastq (which also starts the first .fastq.gz), nothing else changed
ExtendFirstLiteral(cov, filename) ==
    LET idx == {i \in 1..(Len(filename) - 5) : SubSeq(filename, i, i + 5) = FASTQ}
    IN  IF idx = {} THEN filename
        ELSE LET k == CHOOSE i \in idx : \A j \in idx : i <= j
             IN  SubSeq(filename, 1, k - 1) \o <<".">> \o PaddedCoverage(cov) \o XDS
                     \o SubSeq(filename, k, Len(filename))

\* C14: the extend output name is the filename with .{padded}xds inserted
\* before the first occurrence only of the literal .fastq.gz or .fastq, every
\* other character unchanged.
C14_ExtendFirstLiteralOnly ==
    \A p \in read_pairs :
        (futures[p].st = "returned" /\ name_type = "extend") =>
            \A r \in {p[1], p[2]} :
                \E q \in Written(r) :
                    Basename(q) = ExtendFirstLiteral(desired_coverage, Basename(r))


\* the call of subsample_reads for p passes its entry conditions: both files
\* exist, the coverage and the scheme are valid, and under insert both
\* filenames hold an underscore
ValidCall(p) ==
    /\ IsFile(fs, p[1]) /\ IsFile(fs, p[2])
    /\ desired_coverage > 0
    /\ name_type \in NameTypes
    /\ name_type = "insert" =>
          Contains(Basename(p[1]), <<"_">>) /\ Contains(Basename(p[2]), <<"_">>)

\* the step in which the processing of p starts
Starts(p) == futures[p].st = "queued" /\ futures'[p].st # "queued"

\* in the next state q holds the bytes of r as they are now
VerbatimCopy(r, q) ==
    /\ q \in DOMAIN fs'
    /\ fs'[q].kind = "file"
    /\ fs'[q].src = fs[r].src /\ fs'[q].size = fs[r].size /\ fs'[q].sub = fs[r].sub

\* C15: when the processing of a pair starts and either file has 100 bytes or
\* less, both files are copied verbatim to the two output paths and the pair
\* succeeds with neither tool run, then or later; when both files are larger,
\* no file is written in that step and the pair is not a copied one.
C15_EmptyInputShortCircuit ==
    [][\A p \in DOMAIN futures :
          /\ (Starts(p) /\ ValidCall(p)) =>
                IF fs[p[1]].size <= 100 \/ fs[p[2]].size <= 100
                THEN /\ futures'[p].st = "returned"
                     /\ futures'[p].copied
                     /\ VerbatimCopy(p[1], OutPath(name_type, desired_coverage,
                                                   output_dir, p[1]))
                     /\ VerbatimCopy(p[2], OutPath(name_type, desired_coverage,
                                                   output_dir, p[2]))
                ELSE /\ ~futures'[p].copied
                     /\ \A q \in DOMAIN fs' :
                           IsFile(fs', q) => q \in DOMAIN fs /\ fs'[q] = fs[q]
          /\ futures[p].copied =>
                /\ futures[p].mash = 0 /\ futures[p].rasusa = 0
                /\ futures[p].st = "returned"
                /\ p \in DOMAIN futures' /\ futures'[p] = futures[p]
    ]_vars

\* C15 witness: a pair whose first file has exactly 100 bytes and whose second
\* is larger was copied, no tool run.
C15_Witness ==
    \E p \in DOMAIN futures :
        /\ futures[p].copied /\ futures[p].st = "returned"
        /\ futures[p].mash = 0 /\ futures[p].rasusa = 0
        /\ IsFile(fs, p[1]) /\ fs[p[1]].size = 100
        /\ IsFile(fs, p[2]) /\ fs[p[2]].size > 100
        /\ Written(p[1]) # {} /\ Written(p[2]) # {}


\* the diagnostic output mash gave for p held both estimate lines
BothEstimates(p) ==
    /\ "Estimated genome size:" \in futures[p].stderr
    /\ "Estimated coverage:" \in futures[p].stderr

\* C16: rasusa is run for a pair only after mash ran for it and printed both
\* the genome size line and the coverage line; when mash ran and a line is
\* absent the pair fails with an error, rasusa is never run for it and no
\* output file is written for it, and the step that fails it changes no file
\* and no other pair.
C16_RasusaOnlyAfterBothEstimates ==
    [][\A p \in DOMAIN futures' :
          /\ (futures'[p].rasusa > 0 \/ futures'[p].st = "rasusa") =>
                /\ futures'[p].mash = 1
                /\ BothEstimates(p)'
                /\ ~futures'[p].copied
          /\ (futures'[p].mash > 0 /\ ~BothEstimates(p)') =>
                /\ futures'[p].st = "raised"
                /\ futures'[p].err = "ValueError"
                /\ futures'[p].rasusa = 0
                /\ Written(p[1])' = {} /\ Written(p[2])' = {}
          /\ (p \in DOMAIN futures /\ futures[p].st = "mash"
                /\ futures'[p].st = "raised") =>
                /\ fs' = fs
                /\ \A q \in DOMAIN futures \ {p} : futures'[q] = futures[q]
    ]_vars

\* C16 witness: of two pairs, mash printed only one estimate line for the one,
\* which failed, and rasusa ran for the other after both lines.
C16_Witness ==
    \E p, q \in DOMAIN futures :
        /\ futures[p].mash = 1 /\ Cardinality(futures[p].stderr) = 1
        /\ futures[p].st = "raised" /\ futures[p].rasusa = 0
        /\ futures[q].rasusa = 1 /\ futures[q].st = "returned"
        /\ BothEstimates(q)


\* the files of the filesystem that some step of a run wrote: a file that
\* holds other bytes than the ones it was found with
OutputFiles == {q \in DOMAIN fs : IsFile(fs, q) /\ (fs[q].src # q \/ fs[q].sub)}

\* C17: with a naming scheme outside prepend, insert and extend, a run of
\* either entry point fails before any pair is processed: the input directory
\* is never listed, no pair is copied or handed to a tool, no output file
\* exists (so none under a prepend name), and the exit status is 1.
C17_UnknownSchemeFailsValidation ==
    name_type \notin NameTypes =>
        /\ OutputFiles = {}
        /\ ~listed
        /\ \A p \in DOMAIN futures :
              /\ futures[p].st \in {"queued", "raised"}
              /\ futures[p].st = "raised" => futures[p].err = "ValueError"
              /\ ~futures[p].copied
              /\ futures[p].mash = 0 /\ futures[p].rasusa = 0
              /\ ~IsFile(fs, Join(output_dir, PrependName(desired_coverage, Basename(p[1]))))
        /\ pc = "exited" => exit_status = {1}

\* C17 witness: a call of subsample_reads with an unknown scheme ended, raised
\* by the check of the scheme, on a pair small enough to be copied.
C17_Witness ==
    /\ name_type = "bogus"
    /\ pc = "exited"
    /\ \E p \in DOMAIN futures :
          /\ futures[p].st = "raised" /\ futures[p].err = "ValueError"
          /\ fs[p[1]].size <= 100


\* a read filename of p holds no underscore
NoUnderscore(p) ==
    ~Contains(Basename(p[1]), <<"_">>) \/ ~Contains(Basename(p[2]), <<"_">>)

\* C18: with the insert scheme a read filename without an underscore is
\* rejected by validation before anything is done: no step of the call changes
\* the filesystem (the output directory is not created) and the failure is not
\* one raised by the naming step in the middle of the processing.
C18_InsertNeedsUnderscoreAtValidation ==
    [][\A p \in read_pairs :
          (name_type = "insert" /\ NoUnderscore(p)) =>
              /\ fs' = fs
              /\ futures'[p].err # "IndexError"
    ]_vars


\* C19: no retries.  Once the pairs are submitted there is one task per
\* discovered pair and the set of tasks never changes; a task never goes back
\* to the queue, a task that ended (returned or raised) never changes again,
\* and mash and rasusa each ran at most once for it.
C19_NoRetries ==
    [][/\ DOMAIN futures' # {} => DOMAIN futures' = read_pairs'
       /\ DOMAIN futures # {} => DOMAIN futures' = DOMAIN futures
       /\ \A p \in DOMAIN futures' :
             /\ futures'[p].mash <= 1
             /\ futures'[p].rasusa <= 1
             /\ p \in DOMAIN futures =>
                   /\ futures[p].st # "queued" => futures'[p].st # "queued"
                   /\ futures[p].st \in {"returned", "raised"} =>
                         futures'[p] = futures[p]
                   /\ futures'[p].mash >= futures[p].mash
                   /\ futures'[p].rasusa >= futures[p].rasusa
    ]_vars

\* C19 witness: a run ended in which rasusa failed for a pair after one run of
\* mash and one of rasusa, and mash output failed to parse for another.
C19_Witness ==
    /\ pc = "exited"
    /\ \E p, q \in read_pairs :
          /\ futures[p].st = "raised" /\ futures[p].err = "CalledProcessError"
          /\ futures[p].mash = 1 /\ futures[p].rasusa = 1
          /\ futures[q].st = "raised" /\ futures[q].err = "ValueError"
          /\ futures[q].mash = 1 /\ futures[q].rasusa = 0


\* the files the pairs of a run are read from
InputPaths == UNION {{p[1], p[2]} : p \in read_pairs}

\* C20: in any run, the output directory being the input directory or not, the
\* output paths of the discovered pairs are disjoint from their input paths:
\* no worker writes a file that is the read-1 or read-2 input of a pair.
C20_OutputsDisjointFromInputs ==
    \A p \in read_pairs : OutPaths(p) \cap InputPaths = {}

====
